---- MODULE Spec2Model ----
(***************************************************************************)
(* Model of vglx::OrbitControls (src/src/nodes/orbit_controls.cpp): the    *)
(* controller's state (OrbitControls::Impl), its mouse event handler and   *)
(* its per-frame update.                                                   *)
(*                                                                         *)
(* Numbers: every float of the program is an integer count of 1/Unit, and  *)
(* every product is rounded toward zero onto that grid (FMul), so 0.01 is  *)
(* 10, 0.25 is 250, one radian is 1000 and the pixel 100 is 100000.        *)
(***************************************************************************)
EXTENDS Integers, Sequences, FiniteSets, TLC

VARIABLES impl, camera, last, before, frame

vars == <<impl, camera, last, before, frame>>

\* ------------------------------------------------------------------------
\* Bounds of the model
\* ------------------------------------------------------------------------

\* OnUpdate calls in one run of Spec
MaxFrames == 2

\* OnUpdate calls in one run of SpecLogged
MaxLoggedFrames == 1

\* OnUpdate calls in one run of SpecFolded
MaxPressFrames == 1
MaxFoldedFrames == 2

\* ------------------------------------------------------------------------
\* Fixed-point arithmetic standing for float arithmetic
\* ------------------------------------------------------------------------

Unit == 1000

Quot(a, b) == IF a >= 0 THEN a \div b ELSE -((-a) \div b)

FMul(a, b) == Quot(a * b, Unit)

FMax(a, b) == IF a < b THEN b ELSE a

FClamp(v, lo, hi) == IF v < lo THEN lo ELSE IF hi < v THEN hi ELSE v

PI == 3142

TWO_PI == 6283

HALF_PI == 1571

EPS == 1

\* sine of an angle in [-HALF_PI, HALF_PI], by its Taylor series
SinSeries(y) ==
    LET y2 == FMul(y, y)
        t3 == Quot(FMul(y, y2), 6)
        t5 == Quot(FMul(t3, y2), 20)
        t7 == Quot(FMul(t5, y2), 42)
    IN  y - t3 + t5 - t7

Sin(x) ==
    LET r == x % TWO_PI
        a == IF r > PI THEN r - TWO_PI ELSE r
        y == IF a > HALF_PI THEN PI - a
             ELSE IF a < -HALF_PI THEN -PI - a
             ELSE a
    IN  FClamp(SinSeries(y), -Unit, Unit)

Cos(x) == Sin(x + HALF_PI)

RECURSIVE Newton(_, _)
Newton(n, g) ==
    LET h == (g + n \div g) \div 2
    IN  IF h >= g THEN g ELSE Newton(n, h)

\* floor of the square root of a raw integer
ISqrt(n) == IF n <= 0 THEN 0 ELSE Newton(n, n)

\* ------------------------------------------------------------------------
\* Vector2 and Vector3
\* ------------------------------------------------------------------------

Vec2(x, y) == [x |-> x, y |-> y]

Vec2Sub(a, b) == Vec2(a.x - b.x, a.y - b.y)

Vec3(x, y, z) == [x |-> x, y |-> y, z |-> z]

Zero == Vec3(0, 0, 0)

Vec3Add(a, b) == Vec3(a.x + b.x, a.y + b.y, a.z + b.z)

Vec3Sub(a, b) == Vec3(a.x - b.x, a.y - b.y, a.z - b.z)

Vec3Scale(v, n) == Vec3(FMul(v.x, n), FMul(v.y, n), FMul(v.z, n))

Cross(a, b) ==
    Vec3(FMul(a.y, b.z) - FMul(a.z, b.y),
         FMul(a.z, b.x) - FMul(a.x, b.z),
         FMul(a.x, b.y) - FMul(a.y, b.x))

\* Sqrt(Dot(v, v)), the root taken of the unrounded sum of squares
Length(v) == ISqrt(v.x * v.x + v.y * v.y + v.z * v.z)

Normalize(v) ==
    LET len == Length(v)
    IN  IF len = 0 THEN Zero
        ELSE Vec3(Quot(v.x * Unit, len), Quot(v.y * Unit, len), Quot(v.z * Unit, len))

\* ------------------------------------------------------------------------
\* Spherical
\* ------------------------------------------------------------------------

Spherical(radius, phi, theta) == [radius |-> radius, phi |-> phi, theta |-> theta]

MakeSafe(s) == [s EXCEPT !.theta = FClamp(s.theta, EPS, PI - EPS)]

ToVector3(s) ==
    LET c == FMul(s.radius, Sin(s.theta))
    IN  Vec3(FMul(c, Sin(s.phi)), FMul(s.radius, Cos(s.theta)), FMul(c, Cos(s.phi)))

\* ------------------------------------------------------------------------
\* Camera: the transform's position, the orientation basis and the point
\* last passed to LookAt
\* ------------------------------------------------------------------------

NewCamera ==
    [position |-> Zero,
     right    |-> Vec3(Unit, 0, 0),
     up       |-> Vec3(0, Unit, 0),
     looked   |-> FALSE,
     look_at  |-> Zero]

Right(cam) == cam.right

Up(cam) == cam.up

SetPosition(cam, p) == [cam EXCEPT !.position = p]

LookAt(cam, point) ==
    LET f == Normalize(Vec3Sub(cam.position, point))
        r == Normalize(Cross(Vec3(0, Unit, 0), f))
    IN  [cam EXCEPT !.right = r, !.up = Cross(f, r), !.looked = TRUE, !.look_at = point]

\* ------------------------------------------------------------------------
\* Mouse events
\* ------------------------------------------------------------------------

NoButton == "None"

Buttons == {"Left", "Right", "Middle"}

Positions == {Vec2(100000, 0), Vec2(100000, 20000)}

ScrollDeltas == {Vec2(0, 4000), Vec2(0, -4000), Vec2(3000, 0)}

MouseEvent(type, position, button, scroll) ==
    [type |-> type, position |-> position, button |-> button, scroll |-> scroll]

MouseEvents ==
    {MouseEvent("Moved", p, NoButton, Vec2(0, 0)) : p \in Positions}
    \cup {MouseEvent(t, p, b, Vec2(0, 0)) :
            t \in {"ButtonPressed", "ButtonReleased"}, p \in Positions, b \in Buttons}
    \cup {MouseEvent("Scrolled", p, NoButton, d) : p \in Positions, d \in ScrollDeltas}

\* ------------------------------------------------------------------------
\* OrbitControls::Parameters
\* ------------------------------------------------------------------------

Parameters(radius, pitch, yaw, orbit_speed, pan_speed, zoom_speed) ==
    [radius |-> radius, pitch |-> pitch, yaw |-> yaw,
     orbit_speed |-> orbit_speed, pan_speed |-> pan_speed, zoom_speed |-> zoom_speed]

DefaultParameters == Parameters(1000, 0, 0, 10, 1, 250)

ParameterSets ==
    {DefaultParameters,
     Parameters(10000, 436, 785, 10, 1, 250),
     Parameters(50, 3000, -785, 20, 2, 500)}

\* ------------------------------------------------------------------------
\* OrbitControls::Impl and the constructor
\* ------------------------------------------------------------------------

MinRadius == 100

\* mutant: yaw and pitch change places
OrbitControls_Swapped(params) ==
    [spherical          |-> Spherical(params.radius, params.pitch, params.yaw),
     target             |-> Zero,
     curr_pos           |-> Vec2(0, 0),
     prev_pos           |-> Vec2(0, 0),
     curr_button        |-> NoButton,
     orbit_speed        |-> params.orbit_speed,
     pan_speed          |-> params.pan_speed,
     zoom_speed         |-> params.zoom_speed,
     curr_scroll_offset |-> 0]

OrbitControls(params) ==
    [spherical          |-> Spherical(params.radius, params.yaw, params.pitch),
     target             |-> Zero,
     curr_pos           |-> Vec2(0, 0),
     prev_pos           |-> Vec2(0, 0),
     curr_button        |-> NoButton,
     orbit_speed        |-> params.orbit_speed,
     pan_speed          |-> params.pan_speed,
     zoom_speed         |-> params.zoom_speed,
     curr_scroll_offset |-> 0]

\* ------------------------------------------------------------------------
\* OrbitControls::OnMouseEvent
\* ------------------------------------------------------------------------

\* mutant: a press always takes the slot
Pressed_Overwrites(button, event) ==
    IF event.type = "ButtonPressed" THEN event.button ELSE button

Pressed(button, event) ==
    IF event.type = "ButtonPressed" /\ button = NoButton THEN event.button ELSE button

\* mutant: any release clears the slot
Released_Any(button, event) ==
    IF event.type = "ButtonReleased" THEN NoButton ELSE button

\* mutant: a release is not acted on
Released_Never(button, event) == button

\* mutant: the comparison of the released button with the held one is inverted
Released_Mismatched(button, event) ==
    IF event.type = "ButtonReleased" /\ event.button # button THEN NoButton ELSE button

Released(button, event) ==
    IF event.type = "ButtonReleased" /\ event.button = button THEN NoButton ELSE button

\* mutant: unconsumed deltas add up
Scrolled_Summed(offset, event) ==
    IF event.type = "Scrolled" THEN offset + event.scroll.y ELSE offset

Scrolled(offset, event) ==
    IF event.type = "Scrolled" THEN event.scroll.y ELSE offset

\* mutant: an event also resynchronises the previous position
HandleMouseEvent_Resync(m, event) ==
    [m EXCEPT !.curr_pos = event.position,
              !.prev_pos = event.position,
              !.curr_button = Released(Pressed(m.curr_button, event), event),
              !.curr_scroll_offset = Scrolled(m.curr_scroll_offset, event)]

\* mutant: only a Moved event records the pointer position
HandleMouseEvent_MovedOnly(m, event) ==
    [m EXCEPT !.curr_pos = IF event.type = "Moved" THEN event.position ELSE @,
              !.curr_button = Released(Pressed(m.curr_button, event), event),
              !.curr_scroll_offset = Scrolled(m.curr_scroll_offset, event)]

\* mutant: a latched press starts the drag offset at its own position
HandleMouseEvent_PressAnchors(m, event) ==
    [m EXCEPT !.curr_pos = event.position,
              !.prev_pos = IF event.type = "ButtonPressed" /\ m.curr_button = NoButton
                           THEN event.position ELSE @,
              !.curr_button = Released(Pressed(m.curr_button, event), event),
              !.curr_scroll_offset = Scrolled(m.curr_scroll_offset, event)]

HandleMouseEvent(m, event) ==
    [m EXCEPT !.curr_pos = event.position,
              !.curr_button = Released(Pressed(m.curr_button, event), event),
              !.curr_scroll_offset = Scrolled(m.curr_scroll_offset, event)]

\* ------------------------------------------------------------------------
\* OrbitControls::Impl::OnUpdate
\* ------------------------------------------------------------------------

\* mutant: the azimuth follows the drag instead of opposing it
Orbit_Inverted(m, offset) ==
    [m EXCEPT !.spherical.phi = @ + FMul(offset.x, m.orbit_speed),
              !.spherical.theta = @ + FMul(offset.y, m.orbit_speed)]

\* lines 38-41, taken when do_orbit
Orbit(m, offset) ==
    [m EXCEPT !.spherical.phi = @ - FMul(offset.x, m.orbit_speed),
              !.spherical.theta = @ + FMul(offset.y, m.orbit_speed)]

\* mutant: the radius is not floored
Zoom_Unclamped(m) ==
    [m EXCEPT !.spherical.radius = @ - FMul(m.curr_scroll_offset, m.zoom_speed),
              !.curr_scroll_offset = 0]

\* mutant: the scroll offset stays pending
Zoom_Unconsumed(m) ==
    [m EXCEPT !.spherical.radius =
                  FMax(MinRadius, @ - FMul(m.curr_scroll_offset, m.zoom_speed))]

\* lines 43-47, taken when do_zoom
Zoom(m) ==
    [m EXCEPT !.spherical.radius =
                  FMax(MinRadius, @ - FMul(m.curr_scroll_offset, m.zoom_speed)),
              !.curr_scroll_offset = 0]

\* lines 49-54, taken when do_pan
Pan(m, offset, cam) ==
    LET speed == FMul(m.pan_speed, m.spherical.radius)
        right == Right(cam)
        up    == Up(cam)
    IN  [m EXCEPT !.target =
            Vec3Sub(@, Vec3Scale(Vec3Sub(Vec3Scale(right, offset.x),
                                         Vec3Scale(up, offset.y)),
                                 speed))]

\* mutant: the previous position is left behind
SyncPointer_Skipped(m) == m

\* mutant: the previous position follows only while a button is held
SyncPointer_WhenHeld(m) ==
    IF m.curr_button = NoButton THEN m ELSE [m EXCEPT !.prev_pos = m.curr_pos]

\* line 56
SyncPointer(m) == [m EXCEPT !.prev_pos = m.curr_pos]

\* mutant: the polar angle is committed unclamped
Safe_Skipped(m) == m

\* line 58
Safe(m) == [m EXCEPT !.spherical = MakeSafe(@)]

\* mutant: the position is taken about the origin
Commit_FromOrigin(cam, m) ==
    LookAt(SetPosition(cam, ToVector3(m.spherical)), m.target)

\* lines 59-60
Commit(cam, m) ==
    LookAt(SetPosition(cam, Vec3Add(m.target, ToVector3(m.spherical))), m.target)

\* mutant: the pan block runs before the zoom block
ImplOnUpdate_PanFirst(m, cam, delta) ==
    LET offset   == Vec2Sub(m.curr_pos, m.prev_pos)
        do_orbit == m.curr_button = "Left"
        do_pan   == m.curr_button = "Right"
        do_zoom  == m.curr_scroll_offset # 0
        m1 == IF do_orbit THEN Orbit(m, offset) ELSE m
        m2 == IF do_pan THEN Pan(m1, offset, cam) ELSE m1
        m3 == IF do_zoom THEN Zoom(m2) ELSE m2
        m4 == Safe(SyncPointer(m3))
    IN  [impl |-> m4, camera |-> Commit(cam, m4)]

\* mutant: the drag is scaled by the frame time
ImplOnUpdate_Timed(m, cam, delta) ==
    LET offset   == Vec2Sub(m.curr_pos, m.prev_pos)
        scaled   == Vec2(Quot(offset.x * delta, 16), Quot(offset.y * delta, 16))
        do_orbit == m.curr_button = "Left"
        do_pan   == m.curr_button = "Right"
        do_zoom  == m.curr_scroll_offset # 0
        m1 == IF do_orbit THEN Orbit(m, scaled) ELSE m
        m2 == IF do_zoom THEN Zoom(m1) ELSE m1
        m3 == IF do_pan THEN Pan(m2, scaled, cam) ELSE m2
        m4 == Safe(SyncPointer(m3))
    IN  [impl |-> m4, camera |-> Commit(cam, m4)]

\* mutant: any held button pans
ImplOnUpdate_PanAnyButton(m, cam, delta) ==
    LET offset   == Vec2Sub(m.curr_pos, m.prev_pos)
        do_orbit == m.curr_button = "Left"
        do_pan   == m.curr_button # NoButton
        do_zoom  == m.curr_scroll_offset # 0
        m1 == IF do_orbit THEN Orbit(m, offset) ELSE m
        m2 == IF do_zoom THEN Zoom(m1) ELSE m1
        m3 == IF do_pan THEN Pan(m2, offset, cam) ELSE m2
        m4 == Safe(SyncPointer(m3))
    IN  [impl |-> m4, camera |-> Commit(cam, m4)]

\* mutant: any held button orbits
ImplOnUpdate_OrbitAnyButton(m, cam, delta) ==
    LET offset   == Vec2Sub(m.curr_pos, m.prev_pos)
        do_orbit == m.curr_button # NoButton
        do_pan   == m.curr_button = "Right"
        do_zoom  == m.curr_scroll_offset # 0
        m1 == IF do_orbit THEN Orbit(m, offset) ELSE m
        m2 == IF do_zoom THEN Zoom(m1) ELSE m1
        m3 == IF do_pan THEN Pan(m2, offset, cam) ELSE m2
        m4 == Safe(SyncPointer(m3))
    IN  [impl |-> m4, camera |-> Commit(cam, m4)]

ImplOnUpdate(m, cam, delta) ==
    LET offset   == Vec2Sub(m.curr_pos, m.prev_pos)
        do_orbit == m.curr_button = "Left"
        do_pan   == m.curr_button = "Right"
        do_zoom  == m.curr_scroll_offset # 0
        m1 == IF do_orbit THEN Orbit(m, offset) ELSE m
        m2 == IF do_zoom THEN Zoom(m1) ELSE m1
        m3 == IF do_pan THEN Pan(m2, offset, cam) ELSE m2
        m4 == Safe(SyncPointer(m3))
    IN  [impl |-> m4, camera |-> Commit(cam, m4)]

\* ------------------------------------------------------------------------
\* The state machine
\* ------------------------------------------------------------------------

Deltas == {16, 33}

NoEvent == MouseEvent("None", Vec2(0, 0), NoButton, Vec2(0, 0))

\* The last call: its name and, where calls are logged, the event of
\* OnMouseEvent, the held button and pending scroll offset the call started
\* from, and the vertical deltas of the latest two Scrolled events delivered
\* since the previous OnUpdate.
Call(op, event, button, scroll, deltas) ==
    [op |-> op, event |-> event, button |-> button, scroll |-> scroll, scrolled |-> deltas]

Unlogged(op) == Call(op, NoEvent, NoButton, 0, <<>>)

\* the controller and the camera as the last OnUpdate found them, and the name
\* of the call that preceded it
Snapshot(m, cam, op) == [impl |-> m, camera |-> cam, op |-> op]

Init ==
    /\ \E params \in ParameterSets : impl = OrbitControls(params)
    /\ camera = NewCamera
    /\ last = Unlogged("OrbitControls")
    /\ before = Snapshot(impl, camera, "None")
    /\ frame = 0

MouseEventCall(event, call) ==
    /\ impl' = HandleMouseEvent(impl, event)
    /\ last' = call
    /\ UNCHANGED <<camera, before, frame>>

UpdateCall(delta, call) ==
    /\ LET out == ImplOnUpdate(impl, camera, delta)
       IN  /\ impl' = out.impl
           /\ camera' = out.camera
    /\ last' = call
    /\ before' = Snapshot(impl, camera, last.op)
    /\ frame' = frame + 1

\* Spec: runs of MaxFrames frames
OnMouseEvent(event) ==
    /\ frame < MaxFrames
    /\ MouseEventCall(event, Unlogged("OnMouseEvent"))

OnUpdate(delta) ==
    /\ frame < MaxFrames
    /\ UpdateCall(delta, Unlogged("OnUpdate"))

Next ==
    \/ \E event \in MouseEvents : OnMouseEvent(event)
    \/ \E delta \in Deltas : OnUpdate(delta)

Spec == Init /\ [][Next]_vars

\* SpecLogged: runs of MaxLoggedFrames frames whose calls are logged
Delivered == IF last.op = "OnMouseEvent" THEN last.scrolled ELSE <<>>

Window(deltas, y) == IF Len(deltas) < 2 THEN Append(deltas, y) ELSE <<deltas[2], y>>

LoggedMouseEvent(event) ==
    /\ frame < MaxLoggedFrames
    /\ MouseEventCall(event,
           Call("OnMouseEvent", event, impl.curr_button, impl.curr_scroll_offset,
                IF event.type = "Scrolled" THEN Window(Delivered, event.scroll.y)
                ELSE Delivered))

LoggedUpdate(delta) ==
    /\ frame < MaxLoggedFrames
    /\ UpdateCall(delta,
           Call("OnUpdate", NoEvent, impl.curr_button, impl.curr_scroll_offset, Delivered))

NextLogged ==
    \/ \E event \in MouseEvents : LoggedMouseEvent(event)
    \/ \E delta \in Deltas : LoggedUpdate(delta)

SpecLogged == Init /\ [][NextLogged]_vars

\* SpecFolded: runs of MaxFoldedFrames frames that keep, of the events delivered
\* since the previous OnUpdate, what they add up to: the position of the latest
\* event, the number of Moved events (2 for two or more), whether a press was
\* latched ("down", with the position of that press) and then released
\* ("clicked"), and the position the pointer had at the previous OnUpdate
\* (from).
Folded(op, from, pos, moves, click, press_pos) ==
    [op |-> op, event |-> NoEvent, button |-> NoButton, scroll |-> 0, scrolled |-> <<>>,
     from |-> from, pos |-> pos, moves |-> moves, click |-> click, press_pos |-> press_pos]

NothingFolded(op, pos) == Folded(op, pos, pos, 0, "idle", Vec2(0, 0))

Fold ==
    IF last.op = "OnMouseEvent" THEN last
    ELSE IF last.op = "OnUpdate" THEN NothingFolded("OnMouseEvent", last.pos)
    ELSE NothingFolded("OnMouseEvent", Vec2(0, 0))

FoldEvent(f, event, held) ==
    LET latched == event.type = "ButtonPressed" /\ held = NoButton
        cleared == event.type = "ButtonReleased" /\ held # NoButton /\ event.button = held
    IN  Folded("OnMouseEvent",
               f.from,
               event.position,
               IF event.type = "Moved" /\ f.moves < 2 THEN f.moves + 1 ELSE f.moves,
               IF latched THEN "down"
               ELSE IF cleared THEN (IF f.click = "down" THEN "clicked" ELSE "idle")
               ELSE f.click,
               IF latched THEN event.position
               ELSE IF cleared THEN Vec2(0, 0)
               ELSE f.press_pos)

FoldedParameterSets == {Parameters(10000, 436, 785, 10, 1, 250)}

InitFolded ==
    /\ \E params \in FoldedParameterSets : impl = OrbitControls(params)
    /\ camera = NewCamera
    /\ last = Unlogged("OrbitControls")
    /\ before = Snapshot(impl, camera, "None")
    /\ frame = 0

FoldedMouseEvent(event) ==
    /\ frame < MaxFoldedFrames
    /\ MouseEventCall(event, FoldEvent(Fold, event, impl.curr_button))

FoldedUpdate(delta) ==
    /\ frame < MaxFoldedFrames
    /\ UpdateCall(delta, [Fold EXCEPT !.op = "OnUpdate"])

NextFolded ==
    \/ \E event \in MouseEvents : FoldedMouseEvent(event)
    \/ \E delta \in Deltas : FoldedUpdate(delta)

SpecFolded == InitFolded /\ [][NextFolded]_vars

\* SpecPresses: runs of MaxPressFrames frames whose calls are logged as in
\* SpecLogged, without the scroll deltas, together with the story of the
\* buttons as it stood before the call: the button of a ButtonPressed event
\* that found another button held (ignored), whether that held button has been
\* released since (freed), and whether a ButtonReleased event for the ignored
\* button was delivered after that while nothing was held (stray).
Told(op, event, button, scroll, story) ==
    [op |-> op, event |-> event, button |-> button, scroll |-> scroll, scrolled |-> <<>>,
     ignored |-> story.ignored, freed |-> story.freed, stray |-> story.stray]

NoStory == [ignored |-> NoButton, freed |-> FALSE, stray |-> FALSE]

\* the story after the last call
Story ==
    IF last.op = "OrbitControls" THEN NoStory
    ELSE LET told == [ignored |-> last.ignored, freed |-> last.freed, stray |-> last.stray]
             e    == last.event
             held == last.button
         IN  IF last.op = "OnUpdate" THEN told
             ELSE IF e.type = "ButtonPressed" /\ held = NoButton THEN NoStory
             ELSE IF e.type = "ButtonPressed" /\ e.button # held
                  THEN [ignored |-> e.button, freed |-> FALSE, stray |-> FALSE]
             ELSE IF e.type = "ButtonReleased" /\ held # NoButton /\ e.button = held
                  THEN [told EXCEPT !.freed = told.ignored # NoButton]
             ELSE IF e.type = "ButtonReleased" /\ held = NoButton /\ told.freed
                     /\ e.button = told.ignored
                  THEN [told EXCEPT !.stray = TRUE]
             ELSE told

ToldMouseEvent(event) ==
    /\ frame < MaxPressFrames
    /\ MouseEventCall(event,
           Told("OnMouseEvent", event, impl.curr_button, impl.curr_scroll_offset, Story))

ToldUpdate(delta) ==
    /\ frame < MaxPressFrames
    /\ UpdateCall(delta,
           Told("OnUpdate", NoEvent, impl.curr_button, impl.curr_scroll_offset, Story))

NextPresses ==
    \/ \E event \in MouseEvents : ToldMouseEvent(event)
    \/ \E delta \in Deltas : ToldUpdate(delta)

SpecPresses == InitFolded /\ [][NextPresses]_vars

\* ------------------------------------------------------------------------
\* Properties
\* ------------------------------------------------------------------------

AfterUpdate == last.op = "OnUpdate"

AfterEvent(type) == last.op = "OnMouseEvent" /\ last.event.type = type

\* the pointer offset the last OnUpdate computed (line 33)
Offset == Vec2Sub(before.impl.curr_pos, before.impl.prev_pos)

\* the radius a zoom by the scroll offset y makes of the radius r
Zoomed(r, y, zoom_speed) ==
    LET z == r - FMul(y, zoom_speed) IN IF z < MinRadius THEN MinRadius ELSE z

\* C1: a ButtonPressed event makes the held button the event's button when no
\* button was held, and leaves the held button as it was otherwise.
C1_FirstPressWins ==
    AfterEvent("ButtonPressed") =>
        /\ last.button = NoButton => impl.curr_button = last.event.button
        /\ last.button # NoButton => impl.curr_button = last.button

\* a second button was pressed while another one was held, and was ignored
C1_Witness ==
    /\ AfterEvent("ButtonPressed")
    /\ last.button = "Left"
    /\ last.event.button = "Right"
    /\ impl.curr_button = "Left"

\* C2: a ButtonReleased event clears the held button exactly when it releases
\* the held button, and leaves it as it was otherwise; with the slot cleared,
\* a ButtonPressed event is latched.
C2_MatchingRelease ==
    /\ AfterEvent("ButtonReleased") =>
          /\ last.event.button = last.button => impl.curr_button = NoButton
          /\ last.event.button # last.button => impl.curr_button = last.button
    /\ AfterEvent("ButtonPressed") /\ last.button = NoButton =>
          impl.curr_button = last.event.button

\* the held button was released, and the slot is free again
C2_Witness ==
    /\ AfterEvent("ButtonReleased")
    /\ last.button = "Right"
    /\ last.event.button = "Right"
    /\ impl.curr_button = NoButton

\* C3: after an OnUpdate that found a non-zero scroll offset the radius is at
\* least 0.1.
C3_RadiusFloor ==
    AfterUpdate /\ before.impl.curr_scroll_offset # 0 =>
        impl.spherical.radius >= MinRadius

\* a zoom took the radius below the floor, and the floor was put in its place
C3_Witness ==
    /\ AfterUpdate
    /\ before.impl.curr_scroll_offset > 0
    /\ before.impl.spherical.radius
         - FMul(before.impl.curr_scroll_offset, before.impl.zoom_speed) < MinRadius
    /\ impl.spherical.radius = MinRadius

\* C4: after every OnUpdate the polar angle lies in [EPS, PI - EPS], and the
\* committed camera position is the one of that clamped angle.
C4_PolarSafe ==
    AfterUpdate =>
        /\ EPS <= impl.spherical.theta
        /\ impl.spherical.theta <= PI - EPS
        /\ camera.position = Vec3Add(impl.target, ToVector3(impl.spherical))

\* a Left-drag took the polar angle past PI - EPS, and it was clamped
C4_Witness ==
    /\ AfterUpdate
    /\ before.impl.curr_button = "Left"
    /\ before.impl.spherical.theta + FMul(Offset.y, before.impl.orbit_speed) > PI - EPS
    /\ impl.spherical.theta = PI - EPS

\* C5: after every OnUpdate the camera position is target + ToVector3(spherical)
\* of the target and spherical coordinate the update ended with, and LookAt was
\* called with that target.
C5_DerivedPose ==
    AfterUpdate =>
        /\ camera.position = Vec3Add(impl.target, ToVector3(impl.spherical))
        /\ camera.looked
        /\ camera.look_at = impl.target

\* an update committed the pose about a target that a pan had moved
C5_Witness ==
    /\ AfterUpdate
    /\ impl.target # Zero
    /\ camera.look_at = impl.target
    /\ camera.position # ToVector3(impl.spherical)

\* C6 as stated: with Left held, OnUpdate changes the azimuth by -dx*orbit_speed
\* and the polar angle by +dy*orbit_speed.
C6_AsStated ==
    AfterUpdate /\ before.impl.curr_button = "Left" =>
        /\ impl.spherical.phi
             = before.impl.spherical.phi - FMul(Offset.x, before.impl.orbit_speed)
        /\ impl.spherical.theta
             = before.impl.spherical.theta + FMul(Offset.y, before.impl.orbit_speed)

\* C6: with Left held, OnUpdate changes the azimuth by -dx*orbit_speed and makes
\* the polar angle the clamp of polar + dy*orbit_speed into [EPS, PI - EPS].
C6_LeftDrag ==
    AfterUpdate /\ before.impl.curr_button = "Left" =>
        /\ impl.spherical.phi
             = before.impl.spherical.phi - FMul(Offset.x, before.impl.orbit_speed)
        /\ impl.spherical.theta
             = FClamp(before.impl.spherical.theta
                        + FMul(Offset.y, before.impl.orbit_speed), EPS, PI - EPS)

\* Left held, offset (100, 0), orbit speed 0.01: the azimuth fell by 1.0 and
\* the polar angle stayed
C6_Witness ==
    /\ AfterUpdate
    /\ before.impl.curr_button = "Left"
    /\ Offset = Vec2(100000, 0)
    /\ impl.orbit_speed = 10
    /\ impl.spherical.phi = before.impl.spherical.phi - 1000
    /\ impl.spherical.theta = before.impl.spherical.theta

\* C7: after every OnUpdate the pending scroll offset is 0; an OnUpdate that
\* found the offset s # 0 made the radius max(radius - s*zoom_speed, 0.1); an
\* OnUpdate that found no pending offset left the radius as it was.
C7_ScrollConsumedOnce ==
    AfterUpdate =>
        /\ impl.curr_scroll_offset = 0
        /\ impl.spherical.radius =
              IF before.impl.curr_scroll_offset # 0
              THEN Zoomed(before.impl.spherical.radius, before.impl.curr_scroll_offset,
                          before.impl.zoom_speed)
              ELSE before.impl.spherical.radius

\* scroll 4 at zoom speed 0.25 lowered the radius by 1.0 and was consumed
C7_Witness ==
    /\ AfterUpdate
    /\ before.impl.curr_scroll_offset = 4000
    /\ before.impl.zoom_speed = 250
    /\ impl.spherical.radius = before.impl.spherical.radius - 1000
    /\ impl.curr_scroll_offset = 0

\* C8: a Scrolled event makes the pending offset its own vertical delta, and an
\* OnUpdate that follows Scrolled events applies the delta of the last of them
\* alone: no zoom when that delta is 0.
C8_ScrollLastWriteWins ==
    /\ AfterEvent("Scrolled") => impl.curr_scroll_offset = last.event.scroll.y
    /\ AfterUpdate /\ last.scrolled # <<>> =>
          LET y == last.scrolled[Len(last.scrolled)]
          IN  impl.spherical.radius =
                 IF y # 0
                 THEN Zoomed(before.impl.spherical.radius, y, before.impl.zoom_speed)
                 ELSE before.impl.spherical.radius

\* a Scrolled event with vertical delta 0 followed one with a non-zero delta,
\* and the update applied no zoom
C8_Witness ==
    /\ AfterUpdate
    /\ Len(last.scrolled) = 2
    /\ last.scrolled[1] # 0
    /\ last.scrolled[2] = 0
    /\ impl.spherical.radius = before.impl.spherical.radius

\* C9: an OnUpdate that directly follows an OnUpdate leaves the spherical
\* coordinate, the target and the committed camera pose as it found them.
C9_NoInputIdempotent ==
    AfterUpdate /\ before.op = "OnUpdate" =>
        /\ impl.spherical = before.impl.spherical
        /\ impl.target = before.impl.target
        /\ camera = before.camera

\* two updates in a row with a button held and the pointer away from where it
\* started
C9_Witness ==
    /\ AfterUpdate
    /\ before.op = "OnUpdate"
    /\ impl.curr_button = "Left"
    /\ impl.curr_pos # Vec2(0, 0)
    /\ impl.spherical.phi # 0

\* C10: with Right held, OnUpdate shifts the target by
\* -(right*dx - up*dy) * (pan_speed * r'), r' the radius the update ended with.
C10_ZoomBeforePan ==
    AfterUpdate /\ before.impl.curr_button = "Right" =>
        impl.target =
            Vec3Sub(before.impl.target,
                    Vec3Scale(Vec3Sub(Vec3Scale(before.camera.right, Offset.x),
                                      Vec3Scale(before.camera.up, Offset.y)),
                              FMul(before.impl.pan_speed, impl.spherical.radius)))

\* Right held and a scroll pending: the target moved, by the factor of the
\* zoomed radius, which differs from the factor of the radius before
C10_Witness ==
    /\ AfterUpdate
    /\ before.impl.curr_button = "Right"
    /\ before.impl.curr_scroll_offset # 0
    /\ impl.target # before.impl.target
    /\ before.camera.looked
    /\ FMul(impl.pan_speed, impl.spherical.radius)
         # FMul(impl.pan_speed, before.impl.spherical.radius)

\* the polar angle an update that applies no orbit makes of the one it found
ClampedPolar == FClamp(before.impl.spherical.theta, EPS, PI - EPS)

\* the last OnUpdate applied the orbit step / the pan step
OrbitApplied ==
    \/ impl.spherical.phi # before.impl.spherical.phi
    \/ impl.spherical.theta # ClampedPolar

PanApplied == impl.target # before.impl.target

\* the displacement of the latest event's position from the position the
\* pointer had at the previous OnUpdate
Net == Vec2Sub(last.pos, last.from)

\* the last OnUpdate applied the orbit of the offset d / the pan of the offset d
OrbitedBy(d) ==
    /\ impl.spherical.phi = before.impl.spherical.phi - FMul(d.x, before.impl.orbit_speed)
    /\ impl.spherical.theta
         = FClamp(before.impl.spherical.theta + FMul(d.y, before.impl.orbit_speed),
                  EPS, PI - EPS)

PannedBy(d) ==
    impl.target =
        Vec3Sub(before.impl.target,
                Vec3Scale(Vec3Sub(Vec3Scale(before.camera.right, d.x),
                                  Vec3Scale(before.camera.up, d.y)),
                          FMul(before.impl.pan_speed, impl.spherical.radius)))

\* C11: an OnUpdate applies the events delivered since the previous update as
\* one snapshot: with Left (Right) held it orbits (pans) by the displacement of
\* the latest event's position from the previous update's position, however
\* many moves made it up, and after a button was pressed and released again it
\* applies no orbit and no pan.
C11_EventsFolded ==
    AfterUpdate =>
        /\ before.impl.curr_button = "Left" => OrbitedBy(Net)
        /\ before.impl.curr_button = "Right" => PannedBy(Net)
        /\ last.click = "clicked" => ~OrbitApplied /\ ~PanApplied

\* between the first and the second update the pointer moved twice and a
\* button was pressed and released: the second update applied neither step
C11_Witness ==
    /\ AfterUpdate
    /\ frame = 2
    /\ last.moves = 2
    /\ last.click = "clicked"
    /\ Net # Vec2(0, 0)
    /\ ~OrbitApplied
    /\ ~PanApplied

\* C12 as stated: a held button that is neither Left nor Right is as no held
\* button: OnUpdate applies neither orbit nor pan, and a ButtonPressed event
\* for Left or Right that finds it held is latched.
C12_AsStated ==
    /\ AfterUpdate /\ before.impl.curr_button \notin {"Left", "Right"} =>
          ~OrbitApplied /\ ~PanApplied
    /\ AfterEvent("ButtonPressed")
          /\ last.button \notin {"Left", "Right"}
          /\ last.event.button \in {"Left", "Right"} =>
          impl.curr_button = last.event.button

\* C13: OnMouseEvent leaves the camera alone and, of the controller, changes
\* at most the current pointer position, the held button and the pending
\* scroll offset.
C13_EventsLeaveCamera ==
    [][last'.op = "OnMouseEvent" =>
          /\ camera' = camera
          /\ impl' = [impl EXCEPT !.curr_pos = impl'.curr_pos,
                                  !.curr_button = impl'.curr_button,
                                  !.curr_scroll_offset = impl'.curr_scroll_offset]]_vars

\* after an update, events moved the pointer, latched a button and left a
\* scroll pending; the pose is still the one the update committed
C13_Witness ==
    /\ last.op = "OnMouseEvent"
    /\ frame = 1
    /\ impl.curr_pos # impl.prev_pos
    /\ impl.curr_button = "Left"
    /\ impl.curr_scroll_offset # 0
    /\ camera.looked
    /\ camera.position = Vec3Add(impl.target, ToVector3(impl.spherical))

\* C14: what an OnUpdate makes of the controller and the camera is the same for
\* every frame time.
C14_DeltaIndependent ==
    AfterUpdate =>
        \A d \in Deltas :
            /\ impl = ImplOnUpdate(before.impl, before.camera, d).impl
            /\ camera = ImplOnUpdate(before.impl, before.camera, d).camera

\* an update applied a drag, the same for both frame times
C14_Witness ==
    /\ AfterUpdate
    /\ before.impl.curr_button = "Left"
    /\ Offset # Vec2(0, 0)
    /\ OrbitApplied
    /\ ImplOnUpdate(before.impl, before.camera, 16).impl = impl
    /\ ImplOnUpdate(before.impl, before.camera, 33).impl = impl

\* the parameters the controller was constructed with show in what the first
\* update found
ConstructedWith(params) ==
    /\ before.impl.orbit_speed = params.orbit_speed
    /\ before.impl.pan_speed = params.pan_speed
    /\ before.impl.zoom_speed = params.zoom_speed
    /\ before.impl.spherical.radius = params.radius

FirstFrame == AfterUpdate /\ before.op = "OrbitControls"

\* C15 as stated: the first OnUpdate, with no event before it, commits the
\* spherical conversion of exactly the constructed radius, pitch and yaw about
\* the origin, and calls LookAt on the origin.
C15_AsStated ==
    FirstFrame =>
        \E params \in ParameterSets :
            /\ ConstructedWith(params)
            /\ camera.position
                 = Vec3Add(Zero, ToVector3(Spherical(params.radius, params.yaw, params.pitch)))
            /\ camera.looked
            /\ camera.look_at = Zero

\* C15: the first OnUpdate, with no event before it, commits the spherical
\* conversion of the constructed radius, yaw and the pitch clamped into
\* [EPS, PI - EPS] about the origin, and calls LookAt on the origin.
C15_FirstFrame ==
    FirstFrame =>
        \E params \in ParameterSets :
            /\ ConstructedWith(params)
            /\ impl.spherical = MakeSafe(Spherical(params.radius, params.yaw, params.pitch))
            /\ camera.position = Vec3Add(Zero, ToVector3(impl.spherical))
            /\ camera.looked
            /\ camera.look_at = Zero

\* constructed with pitch 0.436 and yaw 0.785, the first update committed the
\* conversion of exactly those angles
C15_Witness ==
    /\ FirstFrame
    /\ frame = 1
    /\ impl.spherical = Spherical(10000, 785, 436)
    /\ camera.position = ToVector3(Spherical(10000, 785, 436))
    /\ camera.looked
    /\ camera.look_at = Zero

\* C16: no OnUpdate applies both the orbit step and the pan step.
C16_OrbitPanExclusive == AfterUpdate => ~(OrbitApplied /\ PanApplied)

\* an update applied the orbit step together with a zoom, and no pan
C16_Witness ==
    /\ AfterUpdate
    /\ OrbitApplied
    /\ impl.spherical.radius # before.impl.spherical.radius
    /\ ~PanApplied

\* C17: after every OnUpdate the previous pointer position is the current one,
\* which the update did not change.
C17_PointerResynced ==
    AfterUpdate =>
        /\ impl.prev_pos = impl.curr_pos
        /\ impl.curr_pos = before.impl.curr_pos

\* an update found the pointer displaced with no button held and no scroll
\* pending, and resynchronised
C17_Witness ==
    /\ AfterUpdate
    /\ before.impl.curr_button = NoButton
    /\ before.impl.curr_scroll_offset = 0
    /\ Offset # Vec2(0, 0)
    /\ impl.prev_pos = impl.curr_pos

\* C18: the speeds never change; the radius changes only in an OnUpdate that
\* finds a scroll pending, the azimuth only in one that finds Left held, the
\* target only in one that finds Right held, and the polar angle only in one
\* that finds Left held or clamps it.
C18_GestureFrames ==
    [][/\ impl'.orbit_speed = impl.orbit_speed
       /\ impl'.pan_speed = impl.pan_speed
       /\ impl'.zoom_speed = impl.zoom_speed
       /\ impl'.spherical.radius # impl.spherical.radius =>
             last'.op = "OnUpdate" /\ impl.curr_scroll_offset # 0
       /\ impl'.spherical.phi # impl.spherical.phi =>
             last'.op = "OnUpdate" /\ impl.curr_button = "Left"
       /\ impl'.target # impl.target =>
             last'.op = "OnUpdate" /\ impl.curr_button = "Right"
       /\ impl'.spherical.theta # impl.spherical.theta =>
             /\ last'.op = "OnUpdate"
             /\ \/ impl.curr_button = "Left"
                \/ impl'.spherical.theta = FClamp(impl.spherical.theta, EPS, PI - EPS)]_vars

\* an update with Left held and a scroll pending changed the azimuth and the
\* radius and left the target
C18_Witness ==
    /\ AfterUpdate
    /\ before.impl.curr_button = "Left"
    /\ before.impl.curr_scroll_offset # 0
    /\ impl.spherical.phi # before.impl.spherical.phi
    /\ impl.spherical.radius # before.impl.spherical.radius
    /\ impl.target = before.impl.target

\* C19: every mouse event makes the current pointer position its own position;
\* a Moved event changes neither the held button nor the pending scroll offset.
C19_PositionRecorded ==
    last.op = "OnMouseEvent" =>
        /\ impl.curr_pos = last.event.position
        /\ last.event.type = "Moved" =>
              /\ impl.curr_button = last.button
              /\ impl.curr_scroll_offset = last.scroll

\* a button event carried the pointer to a new position while a button was
\* held and a scroll was pending
C19_Witness ==
    /\ AfterEvent("ButtonReleased")
    /\ last.button = "Left"
    /\ last.event.button = "Right"
    /\ last.scroll # 0
    /\ impl.curr_pos = last.event.position
    /\ impl.curr_pos = Vec2(100000, 20000)
    /\ impl.curr_button = "Left"

\* C20: an OnUpdate that finds a button latched since the previous update
\* applies the orbit (Left) or pan (Right) of the whole offset from the previous
\* update's position, not of the displacement since the press.
C20_OffsetFromPreviousUpdate ==
    AfterUpdate /\ last.click = "down" =>
        /\ before.impl.curr_button = "Left" => OrbitedBy(Net)
        /\ before.impl.curr_button = "Right" => PannedBy(Net)

\* right after construction the pointer moved with no button held and Left was
\* pressed where it then stood: the first update orbited by the offset from
\* (0, 0) although the pointer did not move after the press
C20_Witness ==
    /\ AfterUpdate
    /\ frame = 1
    /\ last.click = "down"
    /\ last.moves >= 1
    /\ before.impl.curr_button = "Left"
    /\ last.press_pos = last.pos
    /\ Net = last.pos
    /\ impl.spherical.phi = before.impl.spherical.phi - FMul(last.pos.x, impl.orbit_speed)
    /\ impl.spherical.phi # before.impl.spherical.phi

====
